---------------------------- MODULE Spec2Model ----------------------------
(***************************************************************************)
(* A model of the task-generator scheduling core:                          *)
(*   app/scheduler.py  TaskScheduler (job registry, reconciliation worker) *)
(*   app/services.py   TaskGenerationService (generation executor)         *)
(*   app/crud.py       the policy store queries the core uses              *)
(*   app/api/endpoints.py  the enable / disable / create triggers          *)
(*                                                                         *)
(* The cron engine is APScheduler 3.x's BackgroundScheduler with its       *)
(* default MemoryJobStore.  What the model keeps of it is what the calls   *)
(* made by scheduler.py depend on: while the engine is stopped, add_job    *)
(* appends to a pending list and get_job / get_jobs / remove_job look only *)
(* at that list; start() moves the pending jobs into the job store         *)
(* (replace_existing); shutdown() empties the store.                       *)
(***************************************************************************)
EXTENDS Integers, Sequences, FiniteSets, TLC

\* ------------------------------------------------------------------ bounds
MaxWorkers == 2
MaxTasks == 3
\* in the model of the sessions, callbacks start only while the SeedTask
\* table holds fewer rows than this
MaxFiredRows == 1

\* crud.get_policy_task_gen_configs(db, skip=0, limit=100)
QueryLimit == 100

\* the policy identifiers of the model; the empty string is a valid
\* String(100) value of policy_id
PolicyIds == {"", "sales-daily"}

\* no policy: the pid of a call that takes none
NoPolicy == "-"

\* the place of p's config row within a page of the table
RowIndex(p) == IF p = "" THEN 1 ELSE 2

\* ------------------------------------------------------------ policy store
\* cron expressions, already split on white space as from_crontab does
CronExprs == { <<"0", "2", "*", "*", "*">>, <<"not-a-cron">> }

CronFields == {"*", "0", "2"}

TaskTypes == {"scheduled", "one_time"}

NoConfig == [task_type |-> "none", cron_expression |-> <<>>, row |-> 0]

\* A PolicyTaskGenConfig row of policy p.  row is the row's place in the
\* order the table is listed in: a row created when the table already held
\* QueryLimit rows of other policies lies beyond the first page.
ConfigRows(p) ==
    [task_type : TaskTypes, cron_expression : CronExprs, row : {RowIndex(p), QueryLimit + RowIndex(p)}]

VARIABLES
    policy_configs,   \* PolicyConfig table: p -> "absent" | "enabled" | "disabled"
    gen_configs,      \* PolicyTaskGenConfig table: p -> its row, or NoConfig
    jobs,             \* TaskScheduler.jobs: the policy ids that are keys of the map
    scheduler,        \* TaskScheduler.scheduler: [running, store, pending]
    monitor_running,  \* TaskScheduler.monitor_running
    workers,          \* number of _monitor_policies threads alive
    ret,              \* what the last call returned: "True", "False", "none", "error"
    last,             \* the last call: [op, pid, had]; had: pid was a key of jobs
    frozen,           \* the policy store has stopped changing
    thread,           \* the concurrent callers, statement by statement
    cycle,            \* the locals of the reconciliation worker's cycle
    seed_tasks,       \* SeedTask table
    generated,        \* the count returned by the last generation call
    fault,            \* the external call that failed during the last generation call
    results,          \* the rows the query of the last generation call gave
    sessions          \* thread -> the database session it holds open (0: none)

vars == <<policy_configs, gen_configs, jobs, scheduler, monitor_running,
          workers, ret, last, frozen, thread, cycle, seed_tasks, generated, fault, results, sessions>>

\* what the operations of the scheduler facade leave alone
otherVars == <<frozen, thread, cycle, seed_tasks, generated, fault, results, sessions>>

\* ------------------------------------------------------------- cron engine
\* CronTrigger.from_crontab: five fields, each a valid field expression
FromCrontabOK(expr) ==
    /\ Len(expr) = 5
    /\ \A i \in 1..Len(expr) : expr[i] \in CronFields

RECURSIVE SumPending(_, _)
SumPending(pend, S) ==
    IF S = {} THEN 0
    ELSE LET p == CHOOSE x \in S : TRUE
         IN pend[p] + SumPending(pend, S \ {p})

\* scheduler.get_job(job_id) is not None
SchedGetJob(e, p) ==
    IF e.running THEN p \in e.store ELSE e.pending[p] > 0

\* scheduler.remove_job(job_id), for a job that get_job found
SchedRemoveJob(e, p) ==
    IF e.running
    THEN [e EXCEPT !.store = @ \ {p}]
    ELSE [e EXCEPT !.pending[p] = @ - 1]

\* scheduler.add_job(..., id=job_id, replace_existing=True)
SchedAddJob(e, p) ==
    IF e.running
    THEN [e EXCEPT !.store = @ \cup {p}]
    ELSE [e EXCEPT !.pending[p] = @ + 1]

\* len(scheduler.get_jobs())
SchedJobCount(e) ==
    IF e.running THEN Cardinality(e.store) ELSE SumPending(e.pending, PolicyIds)

\* number of engine jobs whose id is policy_<p>
SchedJobsOf(e, p) ==
    IF e.running THEN (IF p \in e.store THEN 1 ELSE 0) ELSE e.pending[p]

\* scheduler.start(): the pending jobs are really added, replacing by id
SchedStart(e) ==
    [running |-> TRUE,
     store   |-> e.store \cup {p \in PolicyIds : e.pending[p] > 0},
     pending |-> [p \in PolicyIds |-> 0]]

\* a shutdown that leaves the engine running
SchedShutdownKeepsRunning(e) == e

\* scheduler.shutdown(): the memory job store drops its jobs
SchedShutdown(e) ==
    [running |-> FALSE, store |-> {}, pending |-> e.pending]

\* ------------------------------------------------------------ job registry
\* TaskScheduler.remove_policy_job
RemovePolicyJob(reg, p) ==
    IF p \in reg.jobs /\ SchedGetJob(reg.scheduler, p)
    THEN [jobs |-> reg.jobs \ {p}, scheduler |-> SchedRemoveJob(reg.scheduler, p)]
    ELSE reg

\* add_policy_job without the early return for one_time configs
AddPolicyJobNoKindCheck(reg, p, c) ==
    LET r == RemovePolicyJob(reg, p)
    IN IF FromCrontabOK(c.cron_expression)
       THEN [jobs |-> r.jobs \cup {p}, scheduler |-> SchedAddJob(r.scheduler, p)]
       ELSE r

\* add_policy_job that adds the engine job and forgets self.jobs[policy_id]
AddPolicyJobForgetsMap(reg, p, c) ==
    IF c.task_type = "one_time" THEN reg
    ELSE LET r == RemovePolicyJob(reg, p)
         IN IF FromCrontabOK(c.cron_expression)
            THEN [jobs |-> r.jobs, scheduler |-> SchedAddJob(r.scheduler, p)]
            ELSE r

\* TaskScheduler.add_policy_job: the registry after the call
AddPolicyJob(reg, p, c) ==
    IF c.task_type = "one_time" THEN reg
    ELSE LET r == RemovePolicyJob(reg, p)
         IN IF FromCrontabOK(c.cron_expression)
            THEN [jobs |-> r.jobs \cup {p}, scheduler |-> SchedAddJob(r.scheduler, p)]
            ELSE r

\* TaskScheduler.add_policy_job: the value returned
AddPolicyJobReturns(c) ==
    c.task_type = "one_time" \/ FromCrontabOK(c.cron_expression)

Registry == [jobs |-> jobs, scheduler |-> scheduler]

\* TaskScheduler.get_job_count
get_job_count == SchedJobCount(scheduler)

\* TaskScheduler.get_active_policies
get_active_policies == jobs

\* ------------------------------------------------------------ store queries
\* crud.get_policy_task_gen_configs: the first QueryLimit rows
ListedConfigs == {p \in PolicyIds : gen_configs[p] # NoConfig /\ gen_configs[p].row <= QueryLimit}

\* crud.get_policy_config(db, p) is a row with is_enabled
IsEnabled(p) == policy_configs[p] = "enabled"

RECURSIVE AddAll(_, _)
AddAll(reg, S) ==
    IF S = {} THEN reg
    ELSE LET p == CHOOSE x \in S : TRUE
         IN AddAll(AddPolicyJob(reg, p, gen_configs[p]), S \ {p})

RECURSIVE RemoveAll(_, _)
RemoveAll(reg, S) ==
    IF S = {} THEN reg
    ELSE LET p == CHOOSE x \in S : TRUE
         IN RemoveAll(RemovePolicyJob(reg, p), S \ {p})

\* _monitor_policies: should_be_active
ShouldBeActive ==
    {p \in ListedConfigs : IsEnabled(p) /\ gen_configs[p].task_type = "scheduled"}

\* _monitor_policies: new_policies, those of them that have a config row
NewPolicies == {p \in ShouldBeActive \ jobs : gen_configs[p] # NoConfig}

\* _monitor_policies: removed_policies
RemovedPolicies == jobs \ ShouldBeActive

Call(op, p, had) == [op |-> op, pid |-> p, had |-> had]

\* no external call failed
NoFault == [step |-> "none", row |-> 0]

\* ---------------------------------------------------------------- sessions
\* the threads that run the program: the reconciliation worker, two request
\* threads, a thread of the cron engine's pool
SessionHolders == {"worker", "api1", "api2", "pool"}

NoSessions == [t \in SessionHolders |-> 0]

\* database.create_db_session: sessionmaker(...)() builds a new Session
\* object, distinct from every session that is open
CreateDbSession ==
    CHOOSE i \in 1..Cardinality(SessionHolders) :
        /\ \A t \in SessionHolders : sessions[t] # i
        /\ \A j \in 1..(i - 1) : \E t \in SessionHolders : sessions[t] = j

\* a close that leaves the session open
CloseLeaks(t) == sessions

\* db.close() in the finally of the unit run by thread t
Close(t) == [sessions EXCEPT ![t] = 0]

\* -------------------------------------------------------------- operations
\* TaskScheduler.__init__, with any content of the policy store
Init ==
    /\ policy_configs \in [PolicyIds -> {"absent", "enabled", "disabled"}]
    /\ gen_configs = [p \in PolicyIds |-> NoConfig]
    /\ jobs = {}
    /\ scheduler = [running |-> FALSE, store |-> {}, pending |-> [p \in PolicyIds |-> 0]]
    /\ monitor_running = FALSE
    /\ workers = 0
    /\ ret = "none"
    /\ last = Call("init", NoPolicy, FALSE)
    /\ frozen = FALSE
    /\ thread = <<>>
    /\ cycle = <<>>
    /\ seed_tasks = <<>>
    /\ fault = NoFault
    /\ results = <<>>
    /\ sessions = NoSessions
    /\ generated = 0

\* a start() that does not test scheduler.running
StartNoRunningCheck ==
    /\ ~frozen
    /\ workers < MaxWorkers
    /\ scheduler' = SchedStart(scheduler)
    /\ monitor_running' = TRUE
    /\ workers' = workers + 1
    /\ ret' = "none"
    /\ last' = Call("start", NoPolicy, scheduler.running)
    /\ UNCHANGED <<policy_configs, gen_configs, jobs, otherVars>>

\* TaskScheduler.start
Start ==
    /\ ~frozen
    /\ IF ~scheduler.running
       THEN /\ workers < MaxWorkers
            /\ scheduler' = SchedStart(scheduler)
            /\ monitor_running' = TRUE
            /\ workers' = workers + 1
       ELSE UNCHANGED <<scheduler, monitor_running, workers>>
    /\ ret' = "none"
    /\ last' = Call("start", NoPolicy, scheduler.running)
    /\ UNCHANGED <<policy_configs, gen_configs, jobs, otherVars>>

\* TaskScheduler.stop; joined: the worker ended within the join's 5 seconds
Stop(joined) ==
    /\ ~frozen
    /\ monitor_running' = FALSE
    /\ workers' = IF joined /\ workers > 0 THEN workers - 1 ELSE workers
    /\ scheduler' = IF scheduler.running THEN SchedShutdown(scheduler) ELSE scheduler
    /\ ret' = "none"
    /\ last' = Call("stop", NoPolicy, scheduler.running)
    /\ UNCHANGED <<policy_configs, gen_configs, jobs, otherVars>>

\* _monitor_policies: the loop ends once it reads monitor_running = False
WorkerExit ==
    /\ workers > 0
    /\ ~monitor_running
    /\ workers' = workers - 1
    /\ ret' = "none"
    /\ last' = Call("worker_exit", NoPolicy, FALSE)
    /\ UNCHANGED <<policy_configs, gen_configs, jobs, scheduler, monitor_running, otherVars>>

\* add_policy_job(config of p), called as an immediate trigger
AddPolicyJobCall(p) ==
    /\ ~frozen
    /\ gen_configs[p] # NoConfig
    /\ LET r == AddPolicyJob(Registry, p, gen_configs[p])
       IN /\ jobs' = r.jobs
          /\ scheduler' = r.scheduler
    /\ ret' = (IF AddPolicyJobReturns(gen_configs[p]) THEN "True" ELSE "False")
    /\ last' = Call("add", p, p \in jobs)
    /\ UNCHANGED <<policy_configs, gen_configs, monitor_running, workers, otherVars>>

\* remove_policy_job(p), called as an immediate trigger
RemovePolicyJobCall(p) ==
    /\ ~frozen
    /\ LET r == RemovePolicyJob(Registry, p)
       IN /\ jobs' = r.jobs
          /\ scheduler' = r.scheduler
    /\ ret' = "none"
    /\ last' = Call("remove", p, p \in jobs)
    /\ UNCHANGED <<policy_configs, gen_configs, monitor_running, workers, otherVars>>

\* TaskScheduler.load_all_policies
LoadAllPolicies ==
    /\ ~frozen
    /\ LET r == AddAll(Registry, {p \in ListedConfigs : IsEnabled(p)})
       IN /\ jobs' = r.jobs
          /\ scheduler' = r.scheduler
    /\ ret' = "none"
    /\ last' = Call("load", NoPolicy, FALSE)
    /\ UNCHANGED <<policy_configs, gen_configs, monitor_running, workers, otherVars>>

\* _monitor_policies: one cycle that runs to its end
MonitorCycle ==
    /\ workers > 0
    /\ monitor_running
    /\ LET r == RemoveAll(AddAll(Registry, NewPolicies), RemovedPolicies)
       IN /\ jobs' = r.jobs
          /\ scheduler' = r.scheduler
    /\ ret' = "none"
    /\ last' = Call("cycle", NoPolicy, FALSE)
    /\ UNCHANGED <<policy_configs, gen_configs, monitor_running, workers, otherVars>>

\* _monitor_policies: a cycle abandoned on an exception, after the policies
\* of done were added (done is empty when the session or a read fails)
MonitorCycleFails(done) ==
    /\ workers > 0
    /\ monitor_running
    /\ done \subseteq NewPolicies
    /\ done = {} \/ done # NewPolicies
    /\ LET r == AddAll(Registry, done)
       IN /\ jobs' = r.jobs
          /\ scheduler' = r.scheduler
    /\ ret' = "none"
    /\ last' = Call("cycle_failed", NoPolicy, FALSE)
    /\ UNCHANGED <<policy_configs, gen_configs, monitor_running, workers, otherVars>>

\* endpoints.enable_policy_config: the status is committed, then
\* crud.create_db_session (which crud does not define) raises
EnablePolicyConfig(p) ==
    /\ ~frozen
    /\ policy_configs[p] # "absent"
    /\ policy_configs' = [policy_configs EXCEPT ![p] = "enabled"]
    /\ ret' = "error"
    /\ last' = Call("enable", p, p \in jobs)
    /\ UNCHANGED <<gen_configs, jobs, scheduler, monitor_running, workers, otherVars>>

\* endpoints.disable_policy_config
DisablePolicyConfig(p) ==
    /\ ~frozen
    /\ policy_configs[p] # "absent"
    /\ policy_configs' = [policy_configs EXCEPT ![p] = "disabled"]
    /\ LET r == RemovePolicyJob(Registry, p)
       IN /\ jobs' = r.jobs
          /\ scheduler' = r.scheduler
    /\ ret' = "none"
    /\ last' = Call("disable", p, p \in jobs)
    /\ UNCHANGED <<gen_configs, monitor_running, workers, otherVars>>

\* crud.create_policy_task_gen_config: a config row for p is stored
CreatePolicyTaskGenConfig(p, c) ==
    /\ ~frozen
    /\ gen_configs[p] = NoConfig
    /\ c \in ConfigRows(p)
    /\ gen_configs' = [gen_configs EXCEPT ![p] = c]
    /\ ret' = "none"
    /\ last' = Call("store", NoPolicy, FALSE)
    /\ UNCHANGED <<policy_configs, jobs, scheduler, monitor_running, workers, otherVars>>

\* PolicyTaskGenConfig rows are updated in place by the owner of the store
\* (updated_at, onupdate): task_type and cron_expression change, the row stays
UpdatePolicyTaskGenConfig(p, c) ==
    /\ ~frozen
    /\ gen_configs[p] # NoConfig
    /\ c \in ConfigRows(p)
    /\ c.row = gen_configs[p].row
    /\ c # gen_configs[p]
    /\ gen_configs' = [gen_configs EXCEPT ![p] = c]
    /\ ret' = "none"
    /\ last' = Call("store", NoPolicy, FALSE)
    /\ UNCHANGED <<policy_configs, jobs, scheduler, monitor_running, workers, otherVars>>

Next ==
    \/ Start
    \/ \E joined \in BOOLEAN : Stop(joined)
    \/ WorkerExit
    \/ \E p \in PolicyIds : AddPolicyJobCall(p)
    \/ \E p \in PolicyIds : RemovePolicyJobCall(p)
    \/ LoadAllPolicies
    \/ MonitorCycle
    \/ \E done \in SUBSET PolicyIds : MonitorCycleFails(done)
    \/ \E p \in PolicyIds : EnablePolicyConfig(p)
    \/ \E p \in PolicyIds : DisablePolicyConfig(p)
    \/ \E p \in PolicyIds : \E c \in ConfigRows(p) : CreatePolicyTaskGenConfig(p, c)
    \/ \E p \in PolicyIds : \E c \in ConfigRows(p) : UpdatePolicyTaskGenConfig(p, c)

Spec == Init /\ [][Next]_vars

\* ------------------------------------------------------ generation executor
\* what the scheduler facade's state is to the generation executor
facadeVars == <<jobs, scheduler, monitor_running, workers, frozen, thread, cycle, sessions>>

\* a value of a result row: a plain scalar, or an enum member holding one
PlainValue(v) == [is_enum |-> FALSE, value |-> v]
EnumValue(v) == [is_enum |-> TRUE, value |-> v]

\* the result sets a policy's query can give
QueryResults ==
    { <<>>, <<PlainValue("r1")>>, <<PlainValue("r1"), EnumValue("r2")>> }

\* execute_task_generation_sql: a row as the dict stored in task_params
RowDict(row) == row.value

\* a SeedTask that is always of kind scheduled
NewSeedTaskScheduledKind(p, c, row) ==
    [policy_id |-> p, task_type |-> "scheduled", task_params |-> RowDict(row),
     is_consumed |-> FALSE]

\* models.SeedTask(policy_id, task_type, task_params), is_consumed defaulting to False
NewSeedTask(p, c, row) ==
    [policy_id |-> p, task_type |-> c.task_type, task_params |-> RowDict(row),
     is_consumed |-> FALSE]

RECURSIVE Persist(_, _, _, _, _)
\* the first n rows of rows, each stored by crud.create_seed_task
Persist(tasks, p, c, rows, n) ==
    IF n = 0 THEN tasks
    ELSE Append(Persist(tasks, p, c, rows, n - 1), NewSeedTask(p, c, rows[n]))

\* generate_seed_tasks that does not look at the PolicyRecord
GenerateSeedTasksNoEnabledCheck(tasks, p, c, lookupFails, rows, failAt) ==
    IF lookupFails THEN [tasks |-> tasks, count |-> 0]
    ELSE IF failAt = 0
         THEN [tasks |-> Persist(tasks, p, c, rows, Len(rows)), count |-> Len(rows)]
         ELSE [tasks |-> Persist(tasks, p, c, rows, failAt - 1), count |-> 0]

\* TaskGenerationService.generate_seed_tasks(c), c the config row of p.
\* lookupFails: crud.get_policy_config raises; rows: what the query gave (none
\* when it failed); failAt: the row whose create_seed_task raises (0: none).
GenerateSeedTasks(tasks, p, c, lookupFails, rows, failAt) ==
    IF lookupFails THEN [tasks |-> tasks, count |-> 0]
    ELSE IF policy_configs[p] # "enabled" THEN [tasks |-> tasks, count |-> 0]
    ELSE IF failAt = 0
         THEN [tasks |-> Persist(tasks, p, c, rows, Len(rows)), count |-> Len(rows)]
         ELSE [tasks |-> Persist(tasks, p, c, rows, failAt - 1), count |-> 0]

\* crud.get_pending_seed_tasks(db, policy_id): the ids (places) of the tasks
PendingSeedTasks(tasks, p) ==
    {i \in 1..Len(tasks) :
        /\ ~tasks[i].is_consumed
        /\ (p # "" => tasks[i].policy_id = p)}

\* a mark that flips the flag instead of setting it
MarkConsumedFlips(tasks, ids) ==
    [i \in 1..Len(tasks) |->
        IF i \in ids THEN [tasks[i] EXCEPT !.is_consumed = ~@] ELSE tasks[i]]

\* crud.mark_seed_task_consumed, for each id of ids
MarkConsumed(tasks, ids) ==
    [i \in 1..Len(tasks) |->
        IF i \in ids THEN [tasks[i] EXCEPT !.is_consumed = TRUE] ELSE tasks[i]]

\* execute_task_generation_sql that hands the rows on whether or not
\* db.execute raised
ExecuteTaskGenerationSqlNoExcept(queryFails, rows) == rows

\* execute_task_generation_sql: the rows of the result set, or [] when
\* db.execute raises (the except of lines 33-35)
ExecuteTaskGenerationSql(queryFails, rows) == IF queryFails THEN <<>> ELSE rows

\* a kind test that lets every config through
IsOneTimeAlways(c) == TRUE

\* line 81: policy_config.task_type != models.TaskType.ONE_TIME
IsOneTime(c) == c.task_type = "one_time"

\* the external call of generate_seed_tasks that failed, in the order the
\* code makes them: the lookup, the query, the persistence of row failAt
GenerationFault(p, lookupFails, queryFails, failAt) ==
    IF lookupFails THEN [step |-> "lookup", row |-> 0]
    ELSE IF policy_configs[p] # "enabled" THEN NoFault
    ELSE IF queryFails THEN [step |-> "query", row |-> 0]
    ELSE IF failAt > 0 THEN [step |-> "persist", row |-> failAt]
    ELSE NoFault

\* generate_seed_tasks, line 46: results, the rows the query gave; the query
\* is not run when the lookup fails or the policy is not enabled
Results(p, lookupFails, rows) ==
    IF lookupFails \/ policy_configs[p] # "enabled" THEN <<>> ELSE rows

\* generate_seed_tasks, called for the config row of p
GenerateSeedTasksCall(p) ==
    /\ gen_configs[p] # NoConfig
    /\ \E lookupFails \in BOOLEAN, queryFails \in BOOLEAN, result \in QueryResults :
       LET rows == ExecuteTaskGenerationSql(queryFails, result)
       IN \E failAt \in 0..Len(rows) :
          /\ Len(seed_tasks) + Len(rows) <= MaxTasks
          /\ LET g == GenerateSeedTasks(seed_tasks, p, gen_configs[p],
                                        lookupFails, rows, failAt)
             IN /\ seed_tasks' = g.tasks
                /\ generated' = g.count
          /\ fault' = GenerationFault(p, lookupFails, queryFails, failAt)
          /\ results' = Results(p, lookupFails, rows)
    /\ ret' = "none"
    /\ last' = Call("generate", p, FALSE)
    /\ UNCHANGED <<policy_configs, gen_configs, facadeVars>>

\* handle_one_time_task_generation, called for the config row of p.
\* listFails: crud.get_pending_seed_tasks raises; marked: the pending tasks
\* marked consumed before a mark raises (all of them when none does).
\* Lines 89-91 are in no try block: a failure there leaves the function as
\* an exception (ret "error") and no count is returned.
HandleOneTimeTaskGenerationCall(p) ==
    /\ gen_configs[p] # NoConfig
    /\ IF ~IsOneTime(gen_configs[p])
       THEN /\ generated' = 0
            /\ ret' = "none"
            /\ fault' = NoFault
            /\ results' = <<>>
            /\ UNCHANGED seed_tasks
       ELSE \E lookupFails \in BOOLEAN, queryFails \in BOOLEAN, result \in QueryResults :
            LET rows == ExecuteTaskGenerationSql(queryFails, result)
            IN \E failAt \in 0..Len(rows) :
               /\ Len(seed_tasks) + Len(rows) <= MaxTasks
               /\ results' = Results(p, lookupFails, rows)
               /\ LET g == GenerateSeedTasks(seed_tasks, p, gen_configs[p],
                                             lookupFails, rows, failAt)
                      pending == PendingSeedTasks(g.tasks, p)
                  IN IF g.count > 0
                     THEN \E listFails \in BOOLEAN, marked \in SUBSET pending :
                             /\ listFails => marked = {}
                             /\ seed_tasks' = MarkConsumed(g.tasks, marked)
                             /\ generated' = IF marked = pending /\ ~listFails
                                             THEN g.count ELSE 0
                             /\ ret' = IF marked = pending /\ ~listFails
                                       THEN "none" ELSE "error"
                             /\ fault' = IF listFails THEN [step |-> "list", row |-> 0]
                                         ELSE IF marked # pending
                                         THEN [step |-> "mark", row |-> 0]
                                         ELSE NoFault
                     ELSE /\ seed_tasks' = g.tasks
                          /\ generated' = g.count
                          /\ ret' = "none"
                          /\ fault' = GenerationFault(p, lookupFails, queryFails, failAt)
    /\ last' = Call("one_time", p, FALSE)
    /\ UNCHANGED <<policy_configs, gen_configs, facadeVars>>

\* crud.mark_seed_task_consumed(db, task_id), called by a downstream consumer
MarkSeedTaskConsumedCall(id) ==
    /\ id \in 1..Len(seed_tasks)
    /\ seed_tasks' = MarkConsumed(seed_tasks, {id})
    /\ generated' = 0
    /\ fault' = NoFault
    /\ results' = <<>>
    /\ ret' = "none"
    /\ last' = Call("consume", NoPolicy, seed_tasks[id].is_consumed)
    /\ UNCHANGED <<policy_configs, gen_configs, facadeVars>>

\* the policy store the generation executor runs against: any PolicyRecords,
\* and for each policy a config row of either kind, or none
InitGen ==
    /\ policy_configs \in [PolicyIds -> {"absent", "enabled", "disabled"}]
    /\ gen_configs \in
          {f \in [PolicyIds -> {NoConfig} \cup
                     [task_type : TaskTypes, cron_expression : {<<"0", "2", "*", "*", "*">>},
                      row : {RowIndex(p) : p \in PolicyIds}]] :
              \A p \in PolicyIds : f[p] = NoConfig \/ f[p].row = RowIndex(p)}
    /\ jobs = {}
    /\ scheduler = [running |-> FALSE, store |-> {}, pending |-> [p \in PolicyIds |-> 0]]
    /\ monitor_running = FALSE
    /\ workers = 0
    /\ ret = "none"
    /\ last = Call("init", NoPolicy, FALSE)
    /\ frozen = FALSE
    /\ thread = <<>>
    /\ cycle = <<>>
    /\ seed_tasks = <<>>
    /\ fault = NoFault
    /\ results = <<>>
    /\ sessions = NoSessions
    /\ generated = 0

NextGen ==
    \/ \E p \in PolicyIds : GenerateSeedTasksCall(p)
    \/ \E p \in PolicyIds : HandleOneTimeTaskGenerationCall(p)
    \/ \E id \in 1..MaxTasks : MarkSeedTaskConsumedCall(id)
    \/ \E p \in PolicyIds : EnablePolicyConfig(p)
    \/ \E p \in PolicyIds : DisablePolicyConfig(p)

SpecGen == InitGen /\ [][NextGen]_vars

\* ------------------------------------------------------- cron-engine callbacks
\* a callback that generates without looking at the config's kind or at the
\* PolicyRecord
ExecutePolicyNoCheck(p) ==
    /\ scheduler.running
    /\ p \in scheduler.store
    /\ gen_configs[p] # NoConfig
    /\ \E result \in QueryResults :
          /\ Len(seed_tasks) + Len(result) <= MaxTasks
          /\ seed_tasks' = Persist(seed_tasks, p, gen_configs[p], result, Len(result))
          /\ generated' = Len(result)
          /\ results' = result
    /\ fault' = NoFault
    /\ ret' = "none"
    /\ last' = Call("fire", p, FALSE)
    /\ UNCHANGED <<policy_configs, gen_configs, facadeVars>>

\* TaskScheduler._execute_policy(p), lines 93-110: the body of the callback
\* of p's job.  readFails: a lookup of lines 95-98 raises (caught at line 109
\* and logged, nothing else happens).
ExecutePolicyBody(p) ==
    /\ \E readFails \in BOOLEAN :
       IF \/ readFails
          \/ gen_configs[p] = NoConfig
          \/ policy_configs[p] # "enabled"
          \/ gen_configs[p].task_type # "scheduled"
       THEN /\ generated' = 0
            /\ fault' = IF readFails THEN [step |-> "lookup", row |-> 0] ELSE NoFault
            /\ results' = <<>>
            /\ UNCHANGED seed_tasks
       ELSE \E lookupFails \in BOOLEAN, queryFails \in BOOLEAN, result \in QueryResults :
            LET rows == ExecuteTaskGenerationSql(queryFails, result)
            IN \E failAt \in 0..Len(rows) :
               /\ Len(seed_tasks) + Len(rows) <= MaxTasks
               /\ LET g == GenerateSeedTasks(seed_tasks, p, gen_configs[p],
                                             lookupFails, rows, failAt)
                  IN /\ seed_tasks' = g.tasks
                     /\ generated' = g.count
               /\ fault' = GenerationFault(p, lookupFails, queryFails, failAt)
               /\ results' = Results(p, lookupFails, rows)
    /\ ret' = "none"
    /\ last' = Call("fire", p, FALSE)

\* _execute_policy(p) as one step of the cron engine: the session of line 92
\* is opened and, in the finally of line 112, closed within the step
ExecutePolicy(p) ==
    /\ scheduler.running
    /\ p \in scheduler.store
    /\ ExecutePolicyBody(p)
    /\ UNCHANGED <<policy_configs, gen_configs, facadeVars>>

NextFire ==
    \/ Start
    \/ \E joined \in BOOLEAN : Stop(joined)
    \/ WorkerExit
    \/ \E p \in PolicyIds : AddPolicyJobCall(p)
    \/ \E p \in PolicyIds : RemovePolicyJobCall(p)
    \/ \E p \in PolicyIds : EnablePolicyConfig(p)
    \/ \E p \in PolicyIds : DisablePolicyConfig(p)
    \/ \E p \in PolicyIds : ExecutePolicy(p)

\* the scheduler facade and the callbacks of its jobs, over a store as in InitGen
SpecFire == InitGen /\ [][NextFire]_vars

\* ------------------------------------------- concurrent callers, by statement
\* The reconciliation worker and the immediate-trigger callers run
\* add_policy_job and remove_policy_job statement by statement.  pc names the
\* line of scheduler.py a thread is about to execute.
Worker == "worker"
Callers == {"api1", "api2"}
\* a thread of the cron engine's pool, which runs the callbacks
Pool == "pool"
Threads == {Worker, Pool} \cup Callers

\* TaskScheduler.lock: created by __init__, acquired by no method
LockHolders == {}

Idle == [pc |-> "idle", op |-> "none", pid |-> NoPolicy, cfg |-> NoConfig, found |-> FALSE]

NoCycle == [listed |-> {}, current |-> {}, should |-> {}, todo |-> {},
            new |-> {}, removed |-> {}]

\* a thread that has executed line 84 and has not yet left remove_policy_job
\* (lines 85-87) or the add_policy_job that called it (lines 64-74)
RegistrySection == {"rm_85", "rm_86", "rm_87", "add_64", "add_66", "add_74"}

InRegistrySection(t) == thread[t].pc \in RegistrySection

\* the thread after remove_policy_job returns to where it was called from
AfterRemove(th) ==
    CASE th.op \in {"add", "cycle_add"} -> [th EXCEPT !.pc = "add_64"]
      [] th.op = "cycle_remove" -> [Idle EXCEPT !.pc = "w_147", !.op = "cycle"]
      [] OTHER -> Idle

\* the thread after add_policy_job returns (True, or False from its except)
AfterAdd(th) ==
    IF th.op = "cycle_add" THEN [Idle EXCEPT !.pc = "w_139", !.op = "cycle"] ELSE Idle

\* the thread after an exception: add_policy_job catches it and returns
\* False; out of remove_policy_job it ends the caller's request, or the
\* worker's cycle (the except of _monitor_policies)
AfterRaise(th) ==
    IF th.op \in {"add", "cycle_add"} THEN AfterAdd(th) ELSE Idle

\* what a caller's call returned once it is over ("none" while it runs, and
\* for the worker's own calls)
Returned(th, value) ==
    IF th.op \in {"add", "remove", "disable"} THEN value ELSE ret

concFrame == <<monitor_running, workers, last, frozen, seed_tasks, generated, fault, results, sessions>>

\* the same, for the statements that open or close the worker's session
workerFrame == <<monitor_running, workers, last, frozen, seed_tasks, generated, fault, results>>

\* a caller's thread enters add_policy_job(config row of p), as
\* load_all_policies does for POST /scheduler/reload
BeginAdd(t, p) ==
    /\ t \in Callers /\ thread[t].pc = "idle"
    /\ gen_configs[p] # NoConfig
    /\ thread' = [thread EXCEPT ![t] =
                     [pc |-> "add_55", op |-> "add", pid |-> p,
                      cfg |-> gen_configs[p], found |-> FALSE]]
    /\ UNCHANGED <<policy_configs, gen_configs, jobs, scheduler, ret, cycle, concFrame>>

\* an immediate trigger calls remove_policy_job(p)
BeginRemove(t, p) ==
    /\ t \in Callers /\ thread[t].pc = "idle"
    /\ thread' = [thread EXCEPT ![t] =
                     [pc |-> "rm_84", op |-> "remove", pid |-> p,
                      cfg |-> NoConfig, found |-> FALSE]]
    /\ UNCHANGED <<policy_configs, gen_configs, jobs, scheduler, ret, cycle, concFrame>>

\* endpoints.disable_policy_config: line 148 commits the status; line 153 is next
BeginDisable(t, p) ==
    /\ t \in Callers /\ thread[t].pc = "idle"
    /\ policy_configs[p] # "absent"
    /\ policy_configs' = [policy_configs EXCEPT ![p] = "disabled"]
    /\ thread' = [thread EXCEPT ![t] =
                     [pc |-> "rm_84", op |-> "disable", pid |-> p,
                      cfg |-> NoConfig, found |-> FALSE]]
    /\ UNCHANGED <<gen_configs, jobs, scheduler, ret, cycle, concFrame>>

\* endpoints.enable_policy_config: line 125 commits the status, line 130 raises
ConcEnable(t, p) ==
    /\ t \in Callers /\ thread[t].pc = "idle"
    /\ policy_configs[p] = "disabled"
    /\ policy_configs' = [policy_configs EXCEPT ![p] = "enabled"]
    /\ ret' = "error"
    /\ UNCHANGED <<gen_configs, jobs, scheduler, thread, cycle, concFrame>>

\* line 55: a one_time config returns True at once
Add55(t) ==
    /\ thread[t].pc = "add_55"
    /\ IF thread[t].cfg.task_type = "one_time"
       THEN /\ thread' = [thread EXCEPT ![t] = AfterAdd(@)]
            /\ ret' = Returned(thread[t], "True")
       ELSE /\ thread' = [thread EXCEPT ![t].pc = "rm_84"]
            /\ UNCHANGED ret
    /\ UNCHANGED <<policy_configs, gen_configs, jobs, scheduler, cycle, concFrame>>

\* line 84: job_id = self.jobs.get(policy_id)
Rm84(t) ==
    /\ thread[t].pc = "rm_84"
    /\ thread' = [thread EXCEPT ![t].pc = "rm_85", ![t].found = (thread[t].pid \in jobs)]
    /\ UNCHANGED <<policy_configs, gen_configs, jobs, scheduler, ret, cycle, concFrame>>

\* line 85: if job_id and self.scheduler.get_job(job_id)
Rm85(t) ==
    /\ thread[t].pc = "rm_85"
    /\ IF thread[t].found /\ SchedGetJob(scheduler, thread[t].pid)
       THEN /\ thread' = [thread EXCEPT ![t].pc = "rm_86"]
            /\ UNCHANGED ret
       ELSE /\ thread' = [thread EXCEPT ![t] = AfterRemove(@)]
            /\ ret' = IF thread[t].op \in {"remove", "disable"} THEN "none" ELSE ret
    /\ UNCHANGED <<policy_configs, gen_configs, jobs, scheduler, cycle, concFrame>>

\* line 86: self.scheduler.remove_job(job_id); JobLookupError when it is gone
Rm86(t) ==
    /\ thread[t].pc = "rm_86"
    /\ IF SchedGetJob(scheduler, thread[t].pid)
       THEN /\ scheduler' = SchedRemoveJob(scheduler, thread[t].pid)
            /\ thread' = [thread EXCEPT ![t].pc = "rm_87"]
            /\ UNCHANGED ret
       ELSE /\ thread' = [thread EXCEPT ![t] = AfterRaise(@)]
            /\ ret' = CASE thread[t].op = "add" -> "False"
                        [] thread[t].op \in {"remove", "disable"} -> "error"
                        [] OTHER -> ret
            /\ UNCHANGED scheduler
    /\ cycle' = IF thread[t].op = "cycle_remove" /\ ~SchedGetJob(scheduler, thread[t].pid)
                THEN NoCycle ELSE cycle
    /\ sessions' = IF thread[t].op = "cycle_remove" /\ ~SchedGetJob(scheduler, thread[t].pid)
                   THEN Close(t) ELSE sessions
    /\ UNCHANGED <<policy_configs, gen_configs, jobs, workerFrame>>

\* line 87: self.jobs.pop(policy_id, None)
Rm87(t) ==
    /\ thread[t].pc = "rm_87"
    /\ jobs' = jobs \ {thread[t].pid}
    /\ thread' = [thread EXCEPT ![t] = AfterRemove(@)]
    /\ ret' = IF thread[t].op \in {"remove", "disable"} THEN "none" ELSE ret
    /\ UNCHANGED <<policy_configs, gen_configs, scheduler, cycle, concFrame>>

\* line 64: CronTrigger.from_crontab(policy_config.cron_expression)
Add64(t) ==
    /\ thread[t].pc = "add_64"
    /\ IF FromCrontabOK(thread[t].cfg.cron_expression)
       THEN /\ thread' = [thread EXCEPT ![t].pc = "add_66"]
            /\ UNCHANGED ret
       ELSE /\ thread' = [thread EXCEPT ![t] = AfterRaise(@)]
            /\ ret' = Returned(thread[t], "False")
    /\ UNCHANGED <<policy_configs, gen_configs, jobs, scheduler, cycle, concFrame>>

\* line 66: self.scheduler.add_job(..., id=job_id, replace_existing=True)
Add66(t) ==
    /\ thread[t].pc = "add_66"
    /\ scheduler' = SchedAddJob(scheduler, thread[t].pid)
    /\ thread' = [thread EXCEPT ![t].pc = "add_74"]
    /\ UNCHANGED <<policy_configs, gen_configs, jobs, ret, cycle, concFrame>>

\* line 74: self.jobs[policy_config.policy_id] = job_id, then return True
Add74(t) ==
    /\ thread[t].pc = "add_74"
    /\ jobs' = jobs \cup {thread[t].pid}
    /\ thread' = [thread EXCEPT ![t] = AfterAdd(@)]
    /\ ret' = Returned(thread[t], "True")
    /\ UNCHANGED <<policy_configs, gen_configs, scheduler, cycle, concFrame>>

\* lines 121-124: db = create_db_session();
\* current_policies = crud.get_policy_task_gen_configs(db)
W124 ==
    /\ thread[Worker].pc = "idle"
    /\ workers > 0 /\ monitor_running
    /\ sessions' = [sessions EXCEPT ![Worker] = CreateDbSession]
    /\ cycle' = [NoCycle EXCEPT !.listed = ListedConfigs, !.todo = ListedConfigs]
    /\ thread' = [thread EXCEPT ![Worker] = [Idle EXCEPT !.pc = "w_127", !.op = "cycle"]]
    /\ UNCHANGED <<policy_configs, gen_configs, jobs, scheduler, ret, workerFrame>>

\* line 127: current_active_policies = set(self.jobs.keys())
W127 ==
    /\ thread[Worker].pc = "w_127"
    /\ cycle' = [cycle EXCEPT !.current = jobs]
    /\ thread' = [thread EXCEPT ![Worker].pc = "w_131"]
    /\ UNCHANGED <<policy_configs, gen_configs, jobs, scheduler, ret, concFrame>>

\* lines 131-135: one listed config, its PolicyRecord read now
W131(p) ==
    /\ thread[Worker].pc = "w_131"
    /\ p \in cycle.todo
    /\ cycle' = [cycle EXCEPT
                   !.todo = @ \ {p},
                   !.should = IF IsEnabled(p) /\ gen_configs[p].task_type = "scheduled"
                              THEN @ \cup {p} ELSE @]
    /\ UNCHANGED <<policy_configs, gen_configs, jobs, scheduler, ret, thread, concFrame>>

\* lines 138 and 146: new_policies and removed_policies
W138 ==
    /\ thread[Worker].pc = "w_131"
    /\ cycle.todo = {}
    /\ cycle' = [cycle EXCEPT !.new = cycle.should \ cycle.current,
                              !.removed = cycle.current \ cycle.should]
    /\ thread' = [thread EXCEPT ![Worker].pc = "w_139"]
    /\ UNCHANGED <<policy_configs, gen_configs, jobs, scheduler, ret, concFrame>>

\* lines 139-143: the next new policy, its config fetched and add_policy_job called
W139 ==
    /\ thread[Worker].pc = "w_139"
    /\ IF cycle.new = {}
       THEN /\ thread' = [thread EXCEPT ![Worker].pc = "w_147"]
            /\ UNCHANGED cycle
       ELSE \E p \in cycle.new :
               /\ cycle' = [cycle EXCEPT !.new = @ \ {p}]
               /\ thread' = [thread EXCEPT ![Worker] =
                     IF gen_configs[p] = NoConfig THEN @
                     ELSE [pc |-> "add_55", op |-> "cycle_add", pid |-> p,
                           cfg |-> gen_configs[p], found |-> FALSE]]
    /\ UNCHANGED <<policy_configs, gen_configs, jobs, scheduler, ret, concFrame>>

\* lines 147-149: the next removed policy, remove_policy_job called; after the
\* last one the cycle is over and the finally of line 151 closes the session
W147 ==
    /\ thread[Worker].pc = "w_147"
    /\ IF cycle.removed = {}
       THEN /\ thread' = [thread EXCEPT ![Worker] = Idle]
            /\ cycle' = NoCycle
            /\ sessions' = Close(Worker)
       ELSE \E p \in cycle.removed :
               /\ cycle' = [cycle EXCEPT !.removed = @ \ {p}]
               /\ thread' = [thread EXCEPT ![Worker] =
                     [pc |-> "rm_84", op |-> "cycle_remove", pid |-> p,
                      cfg |-> NoConfig, found |-> FALSE]]
               /\ UNCHANGED sessions
    /\ UNCHANGED <<policy_configs, gen_configs, jobs, scheduler, ret, workerFrame>>

\* the scheduler after start(); one policy has a PolicyRecord and a SCHEDULED
\* config, the other has neither
ConcPolicy == "sales-daily"

InitConc ==
    /\ policy_configs \in {[p \in PolicyIds |-> IF p = ConcPolicy THEN s ELSE "absent"] :
                               s \in {"enabled", "disabled"}}
    /\ gen_configs = [p \in PolicyIds |->
          IF p = ConcPolicy
          THEN [task_type |-> "scheduled", cron_expression |-> <<"0", "2", "*", "*", "*">>,
                row |-> RowIndex(p)]
          ELSE NoConfig]
    /\ jobs = {}
    /\ scheduler = [running |-> TRUE, store |-> {}, pending |-> [p \in PolicyIds |-> 0]]
    /\ monitor_running = TRUE
    /\ workers = 1
    /\ ret = "none"
    /\ last = Call("start", NoPolicy, FALSE)
    /\ frozen = FALSE
    /\ thread = [t \in Threads |-> Idle]
    /\ cycle = NoCycle
    /\ seed_tasks = <<>>
    /\ fault = NoFault
    /\ results = <<>>
    /\ sessions = NoSessions
    /\ generated = 0

NextConc ==
    \/ \E t \in Callers, p \in PolicyIds : BeginAdd(t, p)
    \/ \E t \in Callers, p \in PolicyIds : BeginRemove(t, p)
    \/ \E t \in Callers, p \in PolicyIds : BeginDisable(t, p)
    \/ \E t \in Callers, p \in PolicyIds : ConcEnable(t, p)
    \/ \E t \in Threads : Add55(t)
    \/ \E t \in Threads : Rm84(t)
    \/ \E t \in Threads : Rm85(t)
    \/ \E t \in Threads : Rm86(t)
    \/ \E t \in Threads : Rm87(t)
    \/ \E t \in Threads : Add64(t)
    \/ \E t \in Threads : Add66(t)
    \/ \E t \in Threads : Add74(t)
    \/ W124
    \/ W127
    \/ \E p \in PolicyIds : W131(p)
    \/ W138
    \/ W139
    \/ W147

SpecConc == InitConc /\ [][NextConc]_vars

\* ------------------------------------- start, stop and the worker, by statement
\* The reconciliation worker runs statement by statement while one caller
\* starts and stops the scheduler and another enables and disables the policy.
\* The model follows one worker thread: a start() issued while the worker of
\* an earlier start() is still alive leaves that worker running its loop.
Lifecycle == "api1"
Trigger == "api2"

\* the worker thread's function has returned
Exited == [Idle EXCEPT !.pc = "exited"]

\* start(), lines 27-34
LifeStart ==
    /\ thread[Lifecycle].pc = "idle"
    /\ IF ~scheduler.running
       THEN /\ scheduler' = SchedStart(scheduler)
            /\ monitor_running' = TRUE
            /\ workers' = 1
            /\ thread' = [thread EXCEPT ![Worker] = IF @.pc = "exited" THEN Idle ELSE @]
       ELSE UNCHANGED <<scheduler, monitor_running, workers, thread>>
    /\ ret' = "none"
    /\ last' = Call("start", NoPolicy, scheduler.running)
    /\ UNCHANGED <<policy_configs, gen_configs, jobs, cycle, frozen, seed_tasks, generated, fault, results, sessions>>

\* stop(), line 39: the run flag is cleared; the join of line 41 is next
LifeStop39 ==
    /\ thread[Lifecycle].pc = "idle"
    /\ monitor_running' = FALSE
    /\ thread' = [thread EXCEPT ![Lifecycle] = [Idle EXCEPT !.pc = "stop_41", !.op = "stop"]]
    /\ UNCHANGED <<policy_configs, gen_configs, jobs, scheduler, workers, ret, last,
                   cycle, frozen, seed_tasks, generated, fault, results, sessions>>

\* stop(), lines 40-45: join(timeout=5) returns because the worker has ended
\* (joined) or because 5 seconds have passed with the worker still alive;
\* then the cron engine is shut down and stop() returns
LifeStop41(joined) ==
    /\ thread[Lifecycle].pc = "stop_41"
    /\ joined <=> thread[Worker].pc = "exited"
    /\ scheduler' = IF scheduler.running THEN SchedShutdown(scheduler) ELSE scheduler
    /\ thread' = [thread EXCEPT ![Lifecycle] = Idle]
    /\ ret' = "none"
    /\ last' = Call("stop", NoPolicy, scheduler.running)
    /\ UNCHANGED <<policy_configs, gen_configs, jobs, monitor_running, workers,
                   cycle, frozen, seed_tasks, generated, fault, results, sessions>>

\* a worker that finds the flag cleared and goes on waiting
WExitWaitsOn ==
    /\ thread[Worker].pc = "idle"
    /\ workers > 0
    /\ ~monitor_running
    /\ UNCHANGED vars

\* line 118: the worker reads monitor_running = False and its function returns
WExit ==
    /\ thread[Worker].pc = "idle"
    /\ workers > 0
    /\ ~monitor_running
    /\ thread' = [thread EXCEPT ![Worker] = Exited]
    /\ workers' = 0
    /\ cycle' = NoCycle
    /\ UNCHANGED <<policy_configs, gen_configs, jobs, scheduler, monitor_running,
                   ret, last, frozen, seed_tasks, generated, fault, results, sessions>>

\* the statements of a cycle that call the store: create_db_session and the
\* listing (121-124, from the loop head), a PolicyRecord read (132), a config
\* fetch (141)
StoreCallPcs == {"idle", "w_131", "w_139"}

\* a failure that ends the worker instead of its cycle
WFailsEndsWorker ==
    /\ thread[Worker].pc \in StoreCallPcs
    /\ thread[Worker].pc = "idle" => (workers > 0 /\ monitor_running)
    /\ thread' = [thread EXCEPT ![Worker] = Exited]
    /\ workers' = 0
    /\ cycle' = NoCycle
    /\ UNCHANGED <<policy_configs, gen_configs, jobs, scheduler, monitor_running,
                   ret, last, frozen, seed_tasks, generated, fault, results, sessions>>

\* a store call of the cycle raises: the inner finally closes the session, the
\* except of line 160 logs, and the worker sleeps 10 seconds (line 162)
WFails ==
    /\ thread[Worker].pc \in StoreCallPcs
    /\ thread[Worker].pc = "idle" => (workers > 0 /\ monitor_running)
    /\ thread' = [thread EXCEPT ![Worker] = [Idle EXCEPT !.pc = "w_162", !.op = "cycle"]]
    /\ cycle' = NoCycle
    /\ sessions' = Close(Worker)
    /\ UNCHANGED <<policy_configs, gen_configs, jobs, scheduler, monitor_running, workers,
                   ret, last, frozen, seed_tasks, generated, fault, results>>

\* line 162: the sleep is over, back to the loop head
W162 ==
    /\ thread[Worker].pc = "w_162"
    /\ thread' = [thread EXCEPT ![Worker] = Idle]
    /\ UNCHANGED <<policy_configs, gen_configs, jobs, scheduler, monitor_running, workers,
                   ret, last, cycle, frozen, seed_tasks, generated, fault, results, sessions>>

\* TaskScheduler.__init__ with one policy in the store, as in InitConc
InitLife ==
    /\ policy_configs \in {[p \in PolicyIds |-> IF p = ConcPolicy THEN s ELSE "absent"] :
                               s \in {"enabled", "disabled"}}
    /\ gen_configs = [p \in PolicyIds |->
          IF p = ConcPolicy
          THEN [task_type |-> "scheduled", cron_expression |-> <<"0", "2", "*", "*", "*">>,
                row |-> RowIndex(p)]
          ELSE NoConfig]
    /\ jobs = {}
    /\ scheduler = [running |-> FALSE, store |-> {}, pending |-> [p \in PolicyIds |-> 0]]
    /\ monitor_running = FALSE
    /\ workers = 0
    /\ ret = "none"
    /\ last = Call("init", NoPolicy, FALSE)
    /\ frozen = FALSE
    /\ thread = [t \in Threads |-> IF t = Worker THEN Exited ELSE Idle]
    /\ cycle = NoCycle
    /\ seed_tasks = <<>>
    /\ fault = NoFault
    /\ results = <<>>
    /\ sessions = NoSessions
    /\ generated = 0

\* a statement of the worker
WorkerStep ==
    \/ W124
    \/ W127
    \/ \E p \in PolicyIds : W131(p)
    \/ W138
    \/ W139
    \/ W147
    \/ WFails
    \/ W162
    \/ WExit
    \/ Add55(Worker)
    \/ Add64(Worker)
    \/ Add66(Worker)
    \/ Add74(Worker)
    \/ Rm84(Worker)
    \/ Rm85(Worker)
    \/ Rm86(Worker)
    \/ Rm87(Worker)

\* a statement of the remove_policy_job the disable endpoint called
TriggerStep ==
    \/ Rm84(Trigger)
    \/ Rm85(Trigger)
    \/ Rm86(Trigger)
    \/ Rm87(Trigger)

NextLife ==
    \/ LifeStart
    \/ LifeStop39
    \/ \E joined \in BOOLEAN : LifeStop41(joined)
    \/ \E p \in PolicyIds : BeginDisable(Trigger, p)
    \/ \E p \in PolicyIds : ConcEnable(Trigger, p)
    \/ WorkerStep
    \/ TriggerStep

\* the worker thread is scheduled again and again; its sleeps end
SpecLife == InitLife /\ [][NextLife]_vars /\ WF_vars(WorkerStep)

\* ------------------------------------------ background units and their sessions
\* The three background units run statement by statement, each on its own
\* thread: the worker's cycles, a callback of the cron engine on a pool
\* thread, a load_all_policies pass on a request thread, while the policy
\* is disabled and enabled through the endpoints.
Loader == "api1"

\* _execute_policy, line 92: db = create_db_session()
F92(p) ==
    /\ thread[Pool].pc = "idle"
    /\ scheduler.running
    /\ p \in scheduler.store
    /\ Len(seed_tasks) < MaxFiredRows
    /\ sessions' = [sessions EXCEPT ![Pool] = CreateDbSession]
    /\ thread' = [thread EXCEPT ![Pool] = [Idle EXCEPT !.pc = "f_95", !.op = "fire", !.pid = p]]
    /\ UNCHANGED <<policy_configs, gen_configs, jobs, scheduler, ret, cycle, workerFrame>>

\* _execute_policy, lines 93-110: the body; a return and an exception both
\* lead to the finally
F95 ==
    /\ thread[Pool].pc = "f_95"
    /\ ExecutePolicyBody(thread[Pool].pid)
    /\ thread' = [thread EXCEPT ![Pool].pc = "f_112"]
    /\ UNCHANGED <<policy_configs, gen_configs, jobs, scheduler, monitor_running, workers,
                   frozen, cycle, sessions>>

\* _execute_policy, line 112: db.close()
F112 ==
    /\ thread[Pool].pc = "f_112"
    /\ sessions' = Close(Pool)
    /\ thread' = [thread EXCEPT ![Pool] = Idle]
    /\ UNCHANGED <<policy_configs, gen_configs, jobs, scheduler, ret, cycle, workerFrame>>

\* load_all_policies, line 166: db = create_db_session()
L166 ==
    /\ thread[Loader].pc = "idle"
    /\ sessions' = [sessions EXCEPT ![Loader] = CreateDbSession]
    /\ thread' = [thread EXCEPT ![Loader] = [Idle EXCEPT !.pc = "l_168", !.op = "load"]]
    /\ UNCHANGED <<policy_configs, gen_configs, jobs, scheduler, ret, cycle, workerFrame>>

\* load_all_policies, lines 168-178: the listing and the loop.  fails: the
\* listing or a PolicyRecord read raises, after the policies of done were
\* added; the exception leaves through the finally.
L168(fails, done) ==
    /\ thread[Loader].pc = "l_168"
    /\ done \subseteq {p \in ListedConfigs : IsEnabled(p)}
    /\ ~fails => done = {p \in ListedConfigs : IsEnabled(p)}
    /\ LET r == AddAll(Registry, done)
       IN /\ jobs' = r.jobs
          /\ scheduler' = r.scheduler
    /\ thread' = [thread EXCEPT ![Loader].pc = "l_180", ![Loader].found = fails]
    /\ UNCHANGED <<policy_configs, gen_configs, ret, cycle, concFrame>>

\* load_all_policies, line 180: db.close(); the pass returns, or its
\* exception goes on to the caller
L180 ==
    /\ thread[Loader].pc = "l_180"
    /\ sessions' = Close(Loader)
    /\ thread' = [thread EXCEPT ![Loader] = Idle]
    /\ ret' = IF thread[Loader].found THEN "error" ELSE "none"
    /\ last' = Call(IF thread[Loader].found THEN "load_failed" ELSE "load", NoPolicy, FALSE)
    /\ UNCHANGED <<policy_configs, gen_configs, jobs, scheduler, monitor_running, workers,
                   frozen, cycle, seed_tasks, generated, fault, results>>

NextSess ==
    \/ W124
    \/ W127
    \/ \E p \in PolicyIds : W131(p)
    \/ W138
    \/ W139
    \/ W147
    \/ WFails
    \/ W162
    \/ Add55(Worker)
    \/ Add64(Worker)
    \/ Add66(Worker)
    \/ Add74(Worker)
    \/ Rm84(Worker)
    \/ Rm85(Worker)
    \/ Rm86(Worker)
    \/ Rm87(Worker)
    \/ \E p \in PolicyIds : EnablePolicyConfig(p)
    \/ \E p \in PolicyIds : DisablePolicyConfig(p)
    \/ \E p \in PolicyIds : F92(p)
    \/ F95
    \/ F112
    \/ L166
    \/ \E fails \in BOOLEAN, done \in SUBSET PolicyIds : L168(fails, done)
    \/ L180

\* the started scheduler of InitConc with its three background units
SpecSess == InitConc /\ [][NextSess]_vars

\* ------------------------------------------------- convergence (fair cycles)
\* From here on the policy store is left alone and the facade is not called;
\* the reconciliation worker is alive and its run flag is set.
Freeze ==
    /\ ~frozen
    /\ workers > 0
    /\ monitor_running
    /\ frozen' = TRUE
    /\ UNCHANGED <<policy_configs, gen_configs, jobs, scheduler, monitor_running,
                   workers, ret, last, thread, cycle, seed_tasks, generated, fault, results, sessions>>

NextFrozen ==
    \/ Next
    \/ Freeze

\* while self.monitor_running: a cycle that runs to its end keeps coming
SpecFrozen == Init /\ [][NextFrozen]_vars /\ WF_vars(MonitorCycle)

\* ------------------------------------------------------------------ claims
\* the config row of p is SCHEDULED with a cron expression that parses
ScheduledValid(p) ==
    /\ gen_configs[p].task_type = "scheduled"
    /\ FromCrontabOK(gen_configs[p].cron_expression)

\* C1: at most one engine job per policy identifier, and add_policy_job for a
\* policy that is already a key of the job map leaves get_job_count() as it was.
C1_OneJobPerPolicy ==
    [][ /\ \A p \in PolicyIds : SchedJobsOf(scheduler', p) <= 1
        /\ (last'.op = "add" /\ last'.had)
              => SchedJobCount(scheduler') = SchedJobCount(scheduler) ]_vars

\* the policies with an enabled PolicyRecord and a SCHEDULED config whose
\* cron expression parses
Desired ==
    {p \in PolicyIds : IsEnabled(p) /\ gen_configs[p] # NoConfig /\ ScheduledValid(p)}

\* C2: once the policy store has stopped changing and cycles keep running,
\* get_active_policies() eventually equals the desired set, and stays so.
C2_Convergence ==
    <>[](frozen => get_active_policies = Desired)

\* C3: the registry-mutating sections of add_policy_job and remove_policy_job
\* are serialized: at most one thread (the reconciliation worker or an
\* immediate-trigger caller) is inside them at a time.
C3_RegistrySerialized ==
    Cardinality({t \in Threads : InRegistrySection(t)}) <= 1

\* C4: once remove_policy_job(p) has returned, p is not in get_active_policies().
C4_RemovedPolicyNotActive ==
    last.op = "remove" => last.pid \notin get_active_policies

\* C5: add_policy_job with a SCHEDULED config whose cron expression does not
\* parse returns False, and the policy is not in get_active_policies() afterwards.
C5_BadCronNotRegistered ==
    ( /\ last.op = "add"
      /\ gen_configs[last.pid].task_type = "scheduled"
      /\ ~FromCrontabOK(gen_configs[last.pid].cron_expression) )
    => (ret = "False" /\ last.pid \notin get_active_policies)

\* C6: add_policy_job for an enabled SCHEDULED policy with a valid cron
\* expression that is not yet registered returns True, raises get_job_count()
\* by exactly 1 and puts the policy into get_active_policies().
C6_AddNewPolicy ==
    [][ \A p \in PolicyIds :
          ( /\ last'.op = "add" /\ last'.pid = p
            /\ IsEnabled(p) /\ ScheduledValid(p)
            /\ p \notin jobs )
          => ( /\ ret' = "True"
               /\ SchedJobCount(scheduler') = SchedJobCount(scheduler) + 1
               /\ p \in jobs' ) ]_vars

C6_Witness ==
    /\ last.op = "add" /\ ~last.had
    /\ IsEnabled(last.pid) /\ ScheduledValid(last.pid)
    /\ ret = "True"
    /\ last.pid \in get_active_policies
    /\ get_job_count = 2

\* C7: a reconciliation cycle that runs to its end, with P enabled and
\* SCHEDULED (valid cron) in the store and not registered, ends with P in
\* get_active_policies().
C7_CycleRegisters ==
    [][ last'.op = "cycle"
          => \A p \in PolicyIds :
                (IsEnabled(p) /\ ScheduledValid(p) /\ p \notin jobs) => p \in jobs' ]_vars

\* C8: after a complete reconciliation cycle no policy whose PolicyRecord is
\* disabled is left in get_active_policies().
C8_DisabledRemovedByCycle ==
    last.op = "cycle"
       => \A p \in get_active_policies : policy_configs[p] # "disabled"

\* C9: no policy whose generation config has kind ONE_TIME is in the job
\* registry: neither a key of the job map nor a job of the cron engine.
C9_OneTimeNeverRegistered ==
    \A p \in PolicyIds :
        gen_configs[p].task_type = "one_time"
           => (p \notin jobs /\ SchedJobsOf(scheduler, p) = 0)

\* C9 as amended: no operation registers a job for a policy whose config
\* kind is ONE_TIME when the operation runs: such a policy gains neither a
\* key in the job map nor a job in the cron engine (one that is registered
\* was registered while its config was SCHEDULED).
C9_OneTimeNotRegisteredByAnyOperation ==
    [][ \A p \in PolicyIds :
          gen_configs[p].task_type = "one_time"
             => /\ (p \in jobs' => p \in jobs)
                /\ SchedJobsOf(scheduler', p) <= SchedJobsOf(scheduler, p) ]_vars

C9_Witness ==
    /\ last.op = "add"
    /\ gen_configs[last.pid].task_type = "one_time"
    /\ IsEnabled(last.pid)
    /\ ret = "True"
    /\ last.pid \notin jobs
    /\ scheduler.running

\* C10: generate_seed_tasks called for a policy whose PolicyRecord is missing
\* or has enabled = false returns 0 and creates no SeedTask row.
C10_DisabledGeneratesNothing ==
    [][ \A p \in PolicyIds :
          (last'.op = "generate" /\ last'.pid = p /\ policy_configs[p] # "enabled")
             => (generated' = 0 /\ seed_tasks' = seed_tasks) ]_vars

C10_Witness ==
    /\ last.op = "generate"
    /\ policy_configs[last.pid] \in {"absent", "disabled"}
    /\ generated = 0
    /\ Len(seed_tasks) > 0

\* the unconsumed SeedTask rows of policy p
PendingOf(tasks, p) ==
    {i \in 1..Len(tasks) : ~tasks[i].is_consumed /\ tasks[i].policy_id = p}

\* tasks is kept as the first rows of tasks2
IsPrefix(tasks, tasks2) ==
    /\ Len(tasks) <= Len(tasks2)
    /\ \A i \in 1..Len(tasks) : tasks2[i] = tasks[i]

\* C11: when persistence of row K fails during generate_seed_tasks, rows
\* 1..K-1 stay committed and the value returned is K-1.
C11_PartialCountReturned ==
    [][ (last'.op = "generate" /\ fault'.step = "persist")
           => /\ IsPrefix(seed_tasks, seed_tasks')
              /\ Len(seed_tasks') = Len(seed_tasks) + fault'.row - 1
              /\ generated' = fault'.row - 1 ]_vars

\* C12: when the policy's query fails, generate_seed_tasks returns 0, creates
\* no SeedTask and raises no exception to its caller.
C12_QueryFailureReturnsZero ==
    [][ (last'.op = "generate" /\ fault'.step = "query")
           => (generated' = 0 /\ seed_tasks' = seed_tasks /\ ret' # "error") ]_vars

C12_Witness ==
    /\ last.op = "generate"
    /\ fault.step = "query"
    /\ policy_configs[last.pid] = "enabled"
    /\ generated = 0
    /\ Len(seed_tasks) > 0

\* C13: after handle_one_time_task_generation has created tasks for a
\* ONE_TIME policy and returned, no SeedTask row of that policy is pending.
C13_OneTimeLeavesNothingPending ==
    [][ (last'.op = "one_time" /\ ret' # "error"
         /\ Len(seed_tasks') > Len(seed_tasks))
           => PendingOf(seed_tasks', last'.pid) = {} ]_vars

\* C14: handle_one_time_task_generation called with a config whose kind is
\* not ONE_TIME returns 0, creates no SeedTask and changes no consumed flag.
C14_NotOneTimeNoEffect ==
    [][ (last'.op = "one_time" /\ gen_configs[last'.pid].task_type # "one_time")
           => (generated' = 0 /\ seed_tasks' = seed_tasks /\ ret' = "none") ]_vars

C14_Witness ==
    /\ last.op = "one_time"
    /\ gen_configs[last.pid].task_type = "scheduled"
    /\ policy_configs[last.pid] = "enabled"
    /\ generated = 0
    /\ PendingOf(seed_tasks, last.pid) # {}

\* C15: the consumed flag is monotone: a row created by generate_seed_tasks
\* starts unconsumed, no row is lost, and a row that is consumed stays
\* consumed under every operation, marking it again included.
C15_ConsumedMonotone ==
    [][ /\ Len(seed_tasks') >= Len(seed_tasks)
        /\ \A i \in 1..Len(seed_tasks) :
              seed_tasks[i].is_consumed => seed_tasks'[i].is_consumed
        /\ last'.op = "generate"
              => \A i \in (Len(seed_tasks) + 1)..Len(seed_tasks') :
                    ~seed_tasks'[i].is_consumed ]_vars

C15_Witness ==
    /\ last.op = "consume"
    /\ last.had
    /\ \E i \in 1..Len(seed_tasks) : seed_tasks[i].is_consumed
    /\ \E i \in 1..Len(seed_tasks) : ~seed_tasks[i].is_consumed

\* C16: no failure of an external call escapes generate_seed_tasks or
\* handle_one_time_task_generation as an exception: both always return a count.
C16_NoExceptionEscapes ==
    last.op \in {"generate", "one_time"} => ret # "error"

\* the worker enters the body of its loop: lines 121-124 run, or fail
CycleStart ==
    \/ W124
    \/ (WFails /\ thread[Worker].pc = "idle")

\* C17: a failure in a step of a cycle abandons the cycle and never ends the
\* worker: if the run flag stays set, the worker starts cycles again and again.
C17_WorkerSurvivesFailures ==
    <>[]monitor_running => []<><<CycleStart>>_vars

C17_Witness ==
    /\ thread[Worker].pc = "w_162"
    /\ monitor_running
    /\ scheduler.running
    /\ jobs # {}

\* the worker reads the policy store (lines 124, 132) or changes the job map
\* or the cron engine
WorkerReadsOrMutates ==
    /\ thread'[Worker] # thread[Worker]
    /\ \/ (thread[Worker].pc = "idle" /\ thread'[Worker].pc = "w_127")
       \/ (thread[Worker].pc = "w_131" /\ cycle'.todo # cycle.todo)
       \/ jobs' # jobs
       \/ scheduler' # scheduler

\* C18: after stop() has returned (and until the next start()), the worker
\* reads nothing from the PolicyStore and changes nothing in the registry.
C18_WorkerQuietAfterStop ==
    [][ (last.op = "stop" /\ last'.op = "stop") => ~WorkerReadsOrMutates ]_vars

\* C19: after stop() has returned no callback starts until the scheduler is
\* started again: stop() leaves the cron engine stopped, only start() sets it
\* running, and a callback starts only while it is running.
C19_NoCallbackAfterStop ==
    [][ /\ last'.op = "stop" => ~scheduler'.running
        /\ (~scheduler.running /\ scheduler'.running) => last'.op = "start"
        /\ last'.op = "fire" => scheduler.running ]_vars

C19_Witness ==
    /\ last.op = "stop"
    /\ last.had
    /\ ~scheduler.running
    /\ jobs # {}
    /\ Len(seed_tasks) > 0

\* C20: start() on a started scheduler changes nothing (no second engine
\* start, no second worker); stop() on a scheduler that is stopped or was never
\* started changes nothing; neither raises.
C20_StartStopIdempotent ==
    [][ /\ (last'.op = "start" /\ last'.had)
              => (UNCHANGED <<scheduler, monitor_running, workers, jobs>> /\ ret' # "error")
        /\ (last'.op = "stop" /\ ~last'.had)
              => (UNCHANGED <<scheduler, monitor_running, jobs>> /\ ret' # "error") ]_vars

C20_Witness ==
    /\ last.op = "start"
    /\ last.had
    /\ scheduler.running
    /\ workers = 1
    /\ jobs # {}

\* C21: load_all_policies registers a job for every enabled SCHEDULED policy
\* (valid cron) that its listing of the store finds, removes no job that was
\* registered before the call, and registers none for a disabled or ONE_TIME
\* policy.
C21_LoadAllAddOnly ==
    [][ last'.op = "load"
          => \A p \in PolicyIds :
                /\ (p \in ListedConfigs /\ IsEnabled(p) /\ ScheduledValid(p))
                      => (p \in jobs' /\ SchedJobsOf(scheduler', p) = 1)
                /\ p \in jobs => p \in jobs'
                /\ SchedJobsOf(scheduler', p) >= SchedJobsOf(scheduler, p)
                /\ (~IsEnabled(p) \/ gen_configs[p].task_type = "one_time")
                      => /\ (p \in jobs' => p \in jobs)
                         /\ SchedJobsOf(scheduler', p) = SchedJobsOf(scheduler, p) ]_vars

\* C22: when the enable operation has set a policy enabled and the policy has
\* a SCHEDULED config with a valid cron expression, the policy's job is
\* registered when the operation finishes.
C22_EnableRegistersAtOnce ==
    [][ \A p \in PolicyIds :
          ( /\ last'.op = "enable" /\ last'.pid = p
            /\ gen_configs[p] # NoConfig /\ ScheduledValid(p) )
          => (p \in jobs' /\ SchedJobsOf(scheduler', p) = 1) ]_vars

\* C23: across any sequence of start() and stop() calls at most one
\* reconciliation worker is alive at any time.
C23_AtMostOneWorker ==
    workers <= 1

\* the policies that have a SCHEDULED config and an enabled PolicyRecord
EnabledScheduled ==
    {p \in PolicyIds : /\ gen_configs[p] # NoConfig
                       /\ gen_configs[p].task_type = "scheduled"
                       /\ IsEnabled(p)}

\* C24: the desired set of a reconciliation cycle is taken over every config
\* record of the store: it is the set of policies with a SCHEDULED config and
\* an enabled PolicyRecord, so a cycle removes the job of none of them.
C24_DesiredOverWholeStore ==
    [][ last'.op = "cycle"
          => /\ ShouldBeActive = EnabledScheduled
             /\ \A p \in EnabledScheduled : p \in jobs => p \in jobs' ]_vars

\* C25: a cron firing creates SeedTask rows only if the policy's config exists
\* with kind SCHEDULED and its PolicyRecord is enabled; a firing for a policy
\* that is disabled or deleted writes nothing, and no firing raises.
C25_FiringChecksPolicy ==
    [][ \A p \in PolicyIds :
          (last'.op = "fire" /\ last'.pid = p)
          => /\ seed_tasks' # seed_tasks
                   => /\ gen_configs[p] # NoConfig
                      /\ gen_configs[p].task_type = "scheduled"
                      /\ IsEnabled(p)
             /\ IsPrefix(seed_tasks, seed_tasks')
             /\ ret' # "error" ]_vars

C25_Witness ==
    /\ last.op = "fire"
    /\ policy_configs[last.pid] \in {"disabled", "absent"}
    /\ gen_configs[last.pid].task_type = "scheduled"
    /\ last.pid \in scheduler.store
    /\ generated = 0
    /\ Len(seed_tasks) > 0

\* C26: when the policy is enabled, the query gives N rows and every row
\* persists, generate_seed_tasks returns N and creates exactly N new SeedTask
\* rows, each with the config's policy identifier and kind, one result row as
\* its parameters, and consumed = false.
C26_GeneratesOneTaskPerRow ==
    [][ \A p \in PolicyIds :
          ( /\ last'.op = "generate" /\ last'.pid = p
            /\ IsEnabled(p)
            /\ fault' = NoFault )
          => /\ generated' = Len(results')
             /\ Len(seed_tasks') = Len(seed_tasks) + Len(results')
             /\ IsPrefix(seed_tasks, seed_tasks')
             /\ \A i \in 1..Len(results') :
                   seed_tasks'[Len(seed_tasks) + i] =
                      [policy_id |-> p,
                       task_type |-> gen_configs[p].task_type,
                       task_params |-> results'[i].value,
                       is_consumed |-> FALSE] ]_vars

C26_Witness ==
    /\ last.op = "generate"
    /\ IsEnabled(last.pid)
    /\ fault = NoFault
    /\ Len(results) = 2
    /\ generated = 2
    /\ Len(seed_tasks) = 3
    /\ gen_configs[last.pid].task_type = "one_time"

\* the thread is inside a background unit: between the statement that opens
\* the unit's session and the finally that closes it
InUnit(t) == thread[t].pc \notin {"idle", "exited", "w_162"}

\* C27: every background unit (a firing, a reconciliation cycle, a
\* load_all_policies pass) has a session of its own, shared with no other
\* unit that runs at the same time, and whenever a unit has ended, by return
\* or by exception, its session is closed.
C27_SessionPerUnitClosedOnExit ==
    /\ \A t \in Threads, u \in Threads :
          (t # u /\ sessions[t] # 0 /\ sessions[u] # 0) => sessions[t] # sessions[u]
    /\ \A t \in {Worker, Pool, Loader} :
          /\ InUnit(t) => sessions[t] # 0
          /\ ~InUnit(t) => sessions[t] = 0

C27_Witness ==
    /\ last.op = "load_failed"
    /\ ~InUnit(Loader)
    /\ sessions[Loader] = 0
    /\ thread[Pool].pc = "f_112"
    /\ fault.step = "lookup"
    /\ InUnit(Worker)
    /\ sessions[Worker] # 0
    /\ sessions[Pool] # 0

\* C28: once stop() has been requested and start() is not called again, the
\* worker eventually terminates; stop() itself does not wait for that: its
\* join returns with the worker ended or still alive.
C28_WorkerEndsAfterStop ==
    /\ [](thread[Lifecycle].pc = "stop_41" => ENABLED (\E joined \in BOOLEAN : LifeStop41(joined)))
    /\ (<>[]~monitor_running => <>[](thread[Worker].pc = "exited"))

C28_Witness ==
    /\ last.op = "stop"
    /\ thread[Lifecycle].pc = "idle"
    /\ thread[Worker].pc = "exited"
    /\ ~monitor_running
    /\ scheduler.pending[ConcPolicy] > 0

\* C29: a failed add_policy_job leaves the registry as it was before the
\* call: a job registered for the policy is still registered afterwards.
C29_FailedAddKeepsRegistry ==
    [][ (last'.op = "add" /\ ret' = "False")
           => (jobs' = jobs /\ scheduler' = scheduler) ]_vars

\* no call of add_policy_job or remove_policy_job is in progress
RegistryQuiet == \A t \in Threads : thread[t].pc \in {"idle", "w_127", "w_131", "w_139", "w_147"}

\* C30: under every interleaving of add_policy_job and remove_policy_job
\* calls of the worker and the immediate-trigger callers no call fails (the
\* remove_job of line 86 never raises), and once the calls are over the
\* registry is one that a serial order of the calls gives: the keys of the job
\* map are the jobs of the cron engine.
C30_InterleavingsSerializable ==
    [][ /\ \A t \in Threads :
              (thread[t].pc = "rm_86" /\ thread'[t] # thread[t]) => thread'[t].pc = "rm_87"
        /\ RegistryQuiet' => jobs' = scheduler'.store ]_vars

\* the policies that have a job in the cron engine
EngineJobs == {p \in PolicyIds : SchedJobsOf(scheduler, p) > 0}

\* C31: in every state in which no registry operation is in progress, after
\* stop() and after a later start() included, get_active_policies() is the
\* set of policies that have a job in the cron engine, and get_job_count() is
\* its size.
C31_ActiveIsEngineJobs ==
    /\ get_active_policies = EngineJobs
    /\ get_job_count = Cardinality(get_active_policies)

\* C32: add_policy_job returns True if and only if a job of the policy is
\* registered when the call returns: the policy is then a key of the job map
\* and has a job in the cron engine.
C32_TrueIffRegistered ==
    [][ \A p \in PolicyIds :
          (last'.op = "add" /\ last'.pid = p)
             => (ret' = "True" <=> (p \in jobs' /\ SchedJobsOf(scheduler', p) > 0)) ]_vars

\* a disable request for p has committed the status and has not yet returned
DisableInProgress(p) ==
    \E t \in Callers : thread[t].op = "disable" /\ thread[t].pid = p /\ thread[t].pc # "idle"

\* C33: a reconciliation cycle that runs concurrently with a disable
\* operation registers no job for a policy that a completed disable has
\* already disabled when the cycle writes the policy's key (line 74).
C33_CycleDoesNotAddDisabled ==
    [][ ( /\ thread[Worker].pc = "add_74"
          /\ thread[Worker].op = "cycle_add"
          /\ thread'[Worker] # thread[Worker] )
        => ~( /\ policy_configs[thread[Worker].pid] = "disabled"
              /\ ~DisableInProgress(thread[Worker].pid) ) ]_vars

\* C34: handle_one_time_task_generation for a policy P, the empty string
\* included, changes the consumed flag of no SeedTask row of another policy.
C34_OneTimeMarksOwnTasksOnly ==
    [][ last'.op = "one_time"
          => \A i \in 1..Len(seed_tasks) :
                seed_tasks[i].policy_id # last'.pid
                   => seed_tasks'[i].is_consumed = seed_tasks[i].is_consumed ]_vars

=============================================================================
